---- MODULE Spec2Model ----
(***************************************************************************)
(* A model of the HunyuanVideo plugin of diffusion-pipe                    *)
(* (src/models/hunyuan_video.py): the checkpoint loader, the two-phase     *)
(* lifecycle of the diffusion transformer, the text-encode closure and its *)
(* shared max_length field, prepare_inputs, and the pipeline-parallel      *)
(* layer stages returned by to_layers().                                   *)
(*                                                                         *)
(* Python strings are sequences of one-character strings, so that          *)
(* str.startswith, str.endswith and `keyword in name` are computed on the  *)
(* characters, as Python computes them.  Real numbers are exact rationals  *)
(* with the common denominator TDen; floating-point rounding is not        *)
(* modelled.                                                               *)
(***************************************************************************)
EXTENDS Integers, Sequences, FiniteSets, TLC

VARIABLES
  \* ---- checkpoint loader and transformer lifecycle
  args,                  \* self.args: model_base, dit_weight, load_key
  model_config,          \* self.config['model']: dtype, transformer_dtype
  fs,                    \* the file system at args.dit_weight
  heap,                  \* the transformer objects built so far, by identity
  inference_model,       \* self.inference_pipeline.model (0 is None)
  diffusers_transformer, \* self.diffusers_pipeline.transformer (0 is None)
  last_load,             \* what the latest load_state_dict call did
  n_loads,               \* calls of load_diffusion_model so far
  \* ---- text encoders and the text-encode closure
  text_cfg,              \* text_len, text_len_2 and the templates' crop_start
  max_length,            \* text_encoder.max_length (shared, mutable)
  max_length_2,          \* text_encoder_2.max_length
  calls,                 \* the running invocations of the closure fn
  \* ---- prepare_inputs and the layer stages
  inputs,                \* the batch handed to prepare_inputs
  rng,                   \* what the random draws of prepare_inputs returned
  transformer,           \* the blocks of the installed transformer
  layers,                \* the list returned by to_layers()
  plan,                  \* the order in which the host runs the stages
  pos,                   \* how many stages of the plan have run
  cur,                   \* the value handed from stage to stage
  fed                    \* what every stage run so far was handed

loadVars == <<args, model_config, fs, heap, inference_model, diffusers_transformer, last_load, n_loads>>

encVars == <<text_cfg, max_length, max_length_2, calls>>

layerVars == <<inputs, rng, transformer, layers, plan, pos, cur, fed>>

vars == <<args, model_config, fs, heap, inference_model, diffusers_transformer, last_load, n_loads, text_cfg, max_length, max_length_2, calls, inputs, rng, transformer, layers, plan, pos, cur, fed>>

(***************************************************************************)
(* Strings                                                                 *)
(***************************************************************************)
\* "pytorch_model_"
S_pytorch_model_ ==
  <<"p","y","t","o","r","c","h","_","m","o","d","e","l","_">>
\* "_model_states.pt"
S_model_states_pt ==
  <<"_","m","o","d","e","l","_","s","t","a","t","e","s",".","p","t">>
\* ".pt"
S_pt ==
  <<".","p","t">>
\* "/"
S_slash ==
  <<"/">>
\* "hunyuan-video-t2v-720p/transformers/mp_rank_00_model_states.pt"
S_transformers_path ==
  <<"h","u","n","y","u","a","n","-","v","i","d","e","o","-","t","2","v","-","7","2","0","p","/","t","r","a","n","s","f","o","r","m","e","r","s","/","m","p","_","r","a","n","k","_","0","0","_","m","o","d","e","l","_","s","t","a","t","e","s",".","p","t">>
\* "norm"
S_norm ==
  <<"n","o","r","m">>
\* "bias"
S_bias ==
  <<"b","i","a","s">>
\* "time_in"
S_time_in ==
  <<"t","i","m","e","_","i","n">>
\* "vector_in"
S_vector_in ==
  <<"v","e","c","t","o","r","_","i","n">>
\* "guidance_in"
S_guidance_in ==
  <<"g","u","i","d","a","n","c","e","_","i","n">>
\* "txt_in"
S_txt_in ==
  <<"t","x","t","_","i","n">>
\* "img_in"
S_img_in ==
  <<"i","m","g","_","i","n">>
\* "ema"
S_ema ==
  <<"e","m","a">>
\* "module"
S_module ==
  <<"m","o","d","u","l","e">>
\* "missing"
S_missing ==
  <<"m","i","s","s","i","n","g">>
\* "state_dict"
S_state_dict ==
  <<"s","t","a","t","e","_","d","i","c","t">>
\* "ckpt"
Base_ckpt ==
  <<"c","k","p","t">>
\* "pytorch_model_hy"
Base_pytorch_model_hy ==
  <<"p","y","t","o","r","c","h","_","m","o","d","e","l","_","h","y">>
\* "pytorch_model_ema.pt"
F_pytorch_model_ema_pt ==
  <<"p","y","t","o","r","c","h","_","m","o","d","e","l","_","e","m","a",".","p","t">>
\* "pytorch_model_module.pt"
F_pytorch_model_module_pt ==
  <<"p","y","t","o","r","c","h","_","m","o","d","e","l","_","m","o","d","u","l","e",".","p","t">>
\* "mp_rank_00_model_states.pt"
F_mp_rank_00_model_states_pt ==
  <<"m","p","_","r","a","n","k","_","0","0","_","m","o","d","e","l","_","s","t","a","t","e","s",".","p","t">>
\* "mp_rank_01_model_states.pt"
F_mp_rank_01_model_states_pt ==
  <<"m","p","_","r","a","n","k","_","0","1","_","m","o","d","e","l","_","s","t","a","t","e","s",".","p","t">>
\* "other.pt"
F_other_pt ==
  <<"o","t","h","e","r",".","p","t">>
\* "config.json"
F_config_json ==
  <<"c","o","n","f","i","g",".","j","s","o","n">>
\* "img_in.proj.weight"
P_img_in_proj_weight ==
  <<"i","m","g","_","i","n",".","p","r","o","j",".","w","e","i","g","h","t">>
\* "double_blocks.0.img_attn_q_norm.weight"
P_q_norm_weight ==
  <<"d","o","u","b","l","e","_","b","l","o","c","k","s",".","0",".","i","m","g","_","a","t","t","n","_","q","_","n","o","r","m",".","w","e","i","g","h","t">>
\* "double_blocks.0.img_mlp.fc1.bias"
P_fc1_bias ==
  <<"d","o","u","b","l","e","_","b","l","o","c","k","s",".","0",".","i","m","g","_","m","l","p",".","f","c","1",".","b","i","a","s">>
\* "double_blocks.0.img_mlp.fc1.weight"
P_fc1_weight ==
  <<"d","o","u","b","l","e","_","b","l","o","c","k","s",".","0",".","i","m","g","_","m","l","p",".","f","c","1",".","w","e","i","g","h","t">>
\* "proj_out.weight"
P_proj_out_weight ==
  <<"p","r","o","j","_","o","u","t",".","w","e","i","g","h","t">>

(***************************************************************************)
(* str and pathlib operations                                              *)
(***************************************************************************)
\* s.startswith(p)
StartsWith(s, p) ==
  Len(s) >= Len(p) /\ SubSeq(s, 1, Len(p)) = p

\* s.endswith(p)
EndsWith(s, p) ==
  Len(s) >= Len(p) /\ SubSeq(s, Len(s) - Len(p) + 1, Len(s)) = p

\* p in s
Contains(s, p) ==
  \E i \in 0..(Len(s) - Len(p)) : SubSeq(s, i + 1, i + Len(p)) = p

\* os.path.join(d, name), Path(d) / name: d does not end in a slash
PathJoin(d, name) ==
  d \o S_slash \o name

(***************************************************************************)
(* Bounds of the model                                                     *)
(***************************************************************************)
\* entries of the directory at args.dit_weight
MaxFiles == 2

\* calls of load_diffusion_model
MaxLoads == 1

(***************************************************************************)
(* The transformer built with empty weights, and checkpoints               *)
(***************************************************************************)
\* model.named_parameters(), in registration order
NamedParameters ==
  <<P_img_in_proj_weight, P_q_norm_weight, P_fc1_bias, P_fc1_weight, P_proj_out_weight>>

ParamNameSet ==
  {NamedParameters[i] : i \in 1..Len(NamedParameters)}

DTypes ==
  {"bfloat16", "float16", "float32"}

\* load_model under init_empty_weights(): every parameter registered on the
\* meta device, holding nothing
load_model(dtype) ==
  [training |-> FALSE,
   params |-> [n \in ParamNameSet |->
                 [dtype |-> dtype, device |-> "meta", value |-> <<>>,
                  populated |-> 0, original_name |-> <<>>]]]

\* one entry of a checkpoint mapping: a tensor, or a nested mapping from the
\* names in `inner` to tensors; `tag` tells the tensors of one mapping from
\* those of another
Tensor(tag) ==
  [kind |-> "tensor", inner |-> {}, tag |-> tag]

\* a flat name -> tensor mapping
Flat(names, tag) ==
  [n \in names |-> Tensor(tag)]

\* a mapping whose top-level keys each hold a name -> tensor mapping
Wrapped(keys, names) ==
  [k \in keys |-> [kind |-> "dict", inner |-> names, tag |-> k]]

\* the name sets a checkpoint may hold: every parameter, or one short
CkptNameSets ==
  {ParamNameSet, ParamNameSet \ {P_proj_out_weight}}

Checkpoints ==
  {Flat(ns, <<"f","l","a","t">>) : ns \in CkptNameSets}
    \cup {Wrapped(ks, ns) : ks \in {{S_ema}, {S_module}, {S_ema, S_module}, {S_state_dict}},
                            ns \in CkptNameSets}

FileNames ==
  {F_pytorch_model_ema_pt, F_pytorch_model_module_pt, F_mp_rank_00_model_states_pt,
   F_mp_rank_01_model_states_pt, F_other_pt, F_config_json}

\* the directory listings: the entries in the order the file system yields them
RECURSIVE ListingsOfLen(_)
ListingsOfLen(n) ==
  IF n = 0 THEN {<<>>}
  ELSE {Append(l, f) : l \in ListingsOfLen(n - 1), f \in FileNames} 

NoRepeat(l) ==
  \A i, j \in 1..Len(l) : i # j => l[i] # l[j]

Listings ==
  {l \in UNION {ListingsOfLen(n) : n \in 0..MaxFiles} : NoRepeat(l)}

\* what may be found at args.dit_weight: nothing, a file with some content,
\* or a directory; `content` is what torch.load reads from the resolved file
FileSystems ==
  {[kind |-> "missing", listing |-> <<>>, content |-> <<>>]}
    \cup {[kind |-> "file", listing |-> <<>>, content |-> c] : c \in Checkpoints}
    \cup {[kind |-> "dir", listing |-> l, content |-> c] : l \in Listings, c \in Checkpoints}

(***************************************************************************)
(* load_state_dict                                                         *)
(***************************************************************************)
\* dit_weight.glob("*.pt"): the entries matching *.pt, as paths under dit_weight
glob_pt(dit_weight, listing) ==
  LET hits == SelectSeq(listing, LAMBDA f : EndsWith(f, S_pt))
  IN [i \in 1..Len(hits) |-> PathJoin(dit_weight, hits[i])]

\* model_path.exists()
path_exists(path, dit_weight, f) ==
  CASE f.kind = "file" -> path = dit_weight
    [] f.kind = "dir" -> \/ path = dit_weight
                         \/ \E i \in 1..Len(f.listing) : path = PathJoin(dit_weight, f.listing[i])
    [] OTHER -> FALSE

\* lines 60-87: the checkpoint path and whether the checkpoint is bare
resolve_model_path(dit_weight, load_key, f) ==
  LET none == [error |-> "none", model_path |-> <<>>, bare_model |-> "unset", warned |-> FALSE]
  IN IF f.kind = "dir" THEN
       LET files == glob_pt(dit_weight, f.listing)
       IN IF Len(files) = 0 THEN
            [none EXCEPT !.error = "ValueError: No model weights found"]
          ELSE IF StartsWith(files[1], S_pytorch_model_) THEN
            [none EXCEPT !.model_path = PathJoin(dit_weight, S_pytorch_model_ \o load_key \o S_pt),
                         !.bare_model = "True"]
          ELSE IF \E i \in 1..Len(files) : EndsWith(files[i], S_model_states_pt) THEN
            LET states == SelectSeq(files, LAMBDA p : EndsWith(p, S_model_states_pt))
            IN [none EXCEPT !.model_path = states[1],
                            !.bare_model = "False",
                            !.warned = Len(states) > 1]
          ELSE
            [none EXCEPT !.error = "ValueError: Invalid model path, unrecognized weight format"]
     ELSE IF f.kind = "file" THEN
       [none EXCEPT !.model_path = dit_weight, !.bare_model = "unknown"]
     ELSE
       [none EXCEPT !.error = "ValueError: Invalid model path"]

\* a faulty variant of line 94: only `ema` marks a wrapped checkpoint
infer_bare_model_ema_only(bare_model, state_dict) ==
  IF bare_model = "unknown" /\ S_ema \in DOMAIN state_dict
  THEN "False" ELSE bare_model

\* lines 94-95: a checkpoint of unknown wrapping is wrapped when its top
\* level holds `ema` or `module`
infer_bare_model(bare_model, state_dict) ==
  IF bare_model = "unknown" /\ (S_ema \in DOMAIN state_dict \/ S_module \in DOMAIN state_dict)
  THEN "False" ELSE bare_model

\* state_dict[load_key]: the mapping held under the key
unwrap(entry) ==
  [n \in entry.inner |-> Tensor(entry.tag)]

ParamsToKeep ==
  {S_norm, S_bias, S_time_in, S_vector_in, S_guidance_in, S_txt_in, S_img_in}

\* a faulty variant of line 108: the keyword must start the name
dtype_to_use_prefix(name, dtype) ==
  IF \E keyword \in ParamsToKeep : StartsWith(name, keyword) THEN "bfloat16" ELSE dtype

\* lines 105-108
dtype_to_use(name, dtype) ==
  IF \E keyword \in ParamsToKeep : Contains(name, keyword) THEN "bfloat16" ELSE dtype

\* accelerate's set_module_tensor_to_device(model, name, device, dtype, value)
set_module_tensor_to_device(model, name, device, dtype, value) ==
  [model EXCEPT !.params[name] =
     [@ EXCEPT !.dtype = dtype, !.device = device, !.value = value.tag,
               !.populated = @ + 1]]

\* lines 107-109: the loop over the named parameters; state_dict[name] raises
\* KeyError at the first parameter the checkpoint does not hold
RECURSIVE materialize(_, _, _, _)
materialize(model, names, state_dict, dtype) ==
  IF names = <<>> THEN [error |-> "none", model |-> model]
  ELSE LET name == Head(names)
       IN IF name \notin DOMAIN state_dict
          THEN [error |-> "KeyError: parameter", model |-> model]
          ELSE materialize(
                 set_module_tensor_to_device(model, name, "cpu",
                                             dtype_to_use(name, dtype), state_dict[name]),
                 Tail(names), state_dict, dtype)

\* lines 31-110.  The result records, beside the model, what the call did:
\* the error raised ("none" when it returned), the resolved path, the final
\* bare_model, whether load_key was looked up in the loaded mapping, the keys
\* an error message lists, and the mapping the parameters were read from.
load_state_dict(a, model, dtype, f) ==
  LET r == resolve_model_path(a.dit_weight, a.load_key, f)
      base == [error |-> r.error, model_path |-> r.model_path, bare_model |-> r.bare_model,
               warned |-> r.warned, looked_up |-> FALSE, error_keys |-> {},
               state_dict |-> <<>>, model |-> model]
  IN IF r.error # "none" THEN base
     ELSE IF ~path_exists(r.model_path, a.dit_weight, f) THEN
       [base EXCEPT !.error = "ValueError: model_path not exists"]
     ELSE
       LET loaded == f.content
           bare == infer_bare_model(r.bare_model, loaded)
       IN IF bare = "False" THEN
            IF a.load_key \in DOMAIN loaded THEN
              LET sd == unwrap(loaded[a.load_key])
                  m == materialize(model, NamedParameters, sd, dtype)
              IN [base EXCEPT !.bare_model = bare, !.looked_up = TRUE, !.state_dict = sd,
                              !.error = m.error, !.model = m.model]
            ELSE
              [base EXCEPT !.bare_model = bare, !.looked_up = TRUE,
                           !.error = "KeyError: load_key", !.error_keys = DOMAIN loaded]
          ELSE
            LET m == materialize(model, NamedParameters, loaded, dtype)
            IN [base EXCEPT !.bare_model = bare, !.state_dict = loaded,
                            !.error = m.error, !.model = m.model]

(***************************************************************************)
(* HunyuanVideoPipeline: construction and the deferred transformer load    *)
(***************************************************************************)
None == 0

LoadKeys ==
  {S_ema, S_module, S_missing}

\* args.dit_weight: the path __init__ derives from the base directory (line
\* 137), or a path load_state_dict is handed directly
DitWeights ==
  {PathJoin(Base_ckpt, S_transformers_path), Base_ckpt, Base_pytorch_model_hy}

TransformerDTypes ==
  {"absent", "float16", "float8_e4m3fn"}

NoLoad ==
  [called |-> FALSE, dtype |-> "none", object |-> None, error |-> "none", model_path |-> <<>>,
   bare_model |-> "unset", warned |-> FALSE, looked_up |-> FALSE, error_keys |-> {},
   state_dict |-> <<>>]

\* line 215
transformer_dtype_of(cfg) ==
  IF cfg.transformer_dtype = "absent" THEN cfg.dtype ELSE cfg.transformer_dtype

\* line 231: self.transformer.train()
train(model) ==
  [model EXCEPT !.training = TRUE]

\* a faulty variant of lines 234-235: the parameters are left untagged
tag_original_names_skipped(model) ==
  model

\* lines 234-235: p.original_name = name for every named parameter
tag_original_names(model) ==
  [model EXCEPT !.params = [n \in DOMAIN @ |-> [@[n] EXCEPT !.original_name = n]]]

\* the state after __init__ (lines 124-211): both text encoders and the VAE
\* are built, the sampler is built with model=None
InitLoad ==
  /\ args \in [dit_weight : DitWeights, load_key : LoadKeys]
  /\ model_config \in [dtype : DTypes, transformer_dtype : TransformerDTypes]
  /\ fs \in FileSystems
  /\ heap = <<>>
  /\ inference_model = None
  /\ diffusers_transformer = None
  /\ last_load = NoLoad
  /\ n_loads = 0

\* load_diffusion_model (lines 214-235), the call of load_state_dict included.
\* An error of load_state_dict leaves the method at line 228: the transformer
\* built there is installed nowhere.
LoadDiffusionModel ==
  /\ n_loads < MaxLoads
  /\ LET transformer_dtype == transformer_dtype_of(model_config)
         r == load_state_dict(args, load_model(transformer_dtype), transformer_dtype, fs)
         id == Len(heap) + 1
     IN /\ last_load' = [called |-> TRUE, dtype |-> transformer_dtype, object |-> id,
                         error |-> r.error, model_path |-> r.model_path,
                         bare_model |-> r.bare_model, warned |-> r.warned,
                         looked_up |-> r.looked_up, error_keys |-> r.error_keys,
                         state_dict |-> r.state_dict]
        /\ IF r.error = "none"
           THEN /\ heap' = Append(heap, tag_original_names(train(r.model)))
                /\ inference_model' = id
                /\ diffusers_transformer' = id
           ELSE /\ heap' = Append(heap, r.model)
                /\ UNCHANGED <<inference_model, diffusers_transformer>>
  /\ n_loads' = n_loads + 1
  /\ UNCHANGED <<args, model_config, fs, encVars, layerVars>>

(***************************************************************************)
(* The text encoders and the text-encode closure                           *)
(***************************************************************************)
\* samples of one batch handed to the closure
MaxSamples == 2

\* the invocations of the closure that may be running
CallIds ==
  {"A", "B"}

\* args.text_len, args.text_len_2 and PROMPT_TEMPLATE[...].get("crop_start", 0)
\* of the video and of the image template
TextCfgs ==
  [text_len : {256}, text_len_2 : {77}, crop_start_video : {0, 95}, crop_start_image : {0, 36}]

\* lines 153-157
max_text_length_video ==
  text_cfg.text_len + text_cfg.crop_start_video

\* lines 158-160
max_text_length_image ==
  text_cfg.text_len + text_cfg.crop_start_image

\* the is_video flags of a batch, one per (caption, is_video) sample
Batches ==
  UNION {[1..n -> BOOLEAN] : n \in 1..MaxSamples}

IdleCall ==
  [pc |-> "idle", idx |-> 0, batch |-> <<>>, i |-> 0, data_type |-> "none", out |-> <<>>]

\* the state after __init__: encoder 1 is built with the video length (line
\* 176), encoder 2 with text_len_2 (line 191); no closure runs
InitEnc ==
  /\ text_cfg \in TextCfgs
  /\ max_length = text_cfg.text_len + text_cfg.crop_start_video
  /\ max_length_2 = text_cfg.text_len_2
  /\ calls = [c \in CallIds |-> IdleCall]

\* no other invocation bound to encoder idx is between its call and its return
NoOtherRunning(c, idx) ==
  \A o \in CallIds \ {c} : calls[o].idx = idx => calls[o].pc \in {"idle", "done"}

\* get_call_text_encoder_fn(text_encoder) (lines 270-276) and the call of the
\* closure fn(caption, is_video) it returns: idx is text_encoder_idx
CallFn(c, idx, batch) ==
  /\ calls[c].pc = "idle"
  /\ calls' = [calls EXCEPT ![c] = [pc |-> "loop", idx |-> idx, batch |-> batch, i |-> 1,
                                    data_type |-> "none", out |-> <<>>]]
  /\ UNCHANGED <<text_cfg, max_length, max_length_2, loadVars, layerVars>>

\* a faulty variant of lines 285-286 and 289-290: the length is set
\* to the video length whatever the sample is
set_max_length_video_only(idx, is_video, current) ==
  IF idx = 1 THEN max_text_length_video ELSE current

\* lines 285-286 and 289-290: the value of text_encoder.max_length after them
set_max_length(idx, is_video, current) ==
  IF idx = 1
  THEN (IF is_video THEN max_text_length_video ELSE max_text_length_image)
  ELSE current

\* a faulty variant of lines 281-291: the step waits until no other
\* invocation on the same encoder is between its own set and its encode
SetMaxLengthLocked(c) ==
  /\ calls[c].pc = "loop"
  /\ calls[c].i <= Len(calls[c].batch)
  /\ \A o \in CallIds \ {c} : calls[o].idx = calls[c].idx => calls[o].pc # "encode"
  /\ LET is_video == calls[c].batch[calls[c].i]
     IN /\ max_length' = set_max_length(calls[c].idx, is_video, max_length)
        /\ calls' = [calls EXCEPT ![c].pc = "encode",
                                  ![c].data_type = IF is_video THEN "video" ELSE "image"]
  /\ UNCHANGED <<text_cfg, max_length_2, loadVars, layerVars>>

\* lines 281-291: the next sample of the loop; the bound encoder's max_length
\* is set when the encoder is the first one, and data_type is chosen
SetMaxLength(c) ==
  /\ calls[c].pc = "loop"
  /\ calls[c].i <= Len(calls[c].batch)
  /\ LET is_video == calls[c].batch[calls[c].i]
     IN /\ max_length' = set_max_length(calls[c].idx, is_video, max_length)
        /\ calls' = [calls EXCEPT ![c].pc = "encode",
                                  ![c].data_type = IF is_video THEN "video" ELSE "image"]
  /\ UNCHANGED <<text_cfg, max_length_2, loadVars, layerVars>>

\* lines 292-306: encode_prompt tokenizes with the max_length the bound
\* encoder holds at this moment; the sample's embedding is appended
EncodePrompt(c) ==
  /\ calls[c].pc = "encode"
  /\ LET used == IF calls[c].idx = 1 THEN max_length ELSE max_length_2
         sample == [is_video |-> calls[c].batch[calls[c].i],
                    data_type |-> calls[c].data_type,
                    max_length |-> used]
     IN calls' = [calls EXCEPT ![c].pc = "loop",
                               ![c].i = @ + 1,
                               ![c].out = Append(@, sample)]
  /\ UNCHANGED <<text_cfg, max_length, max_length_2, loadVars, layerVars>>

\* lines 307-314: the loop is over, the embeddings are concatenated and returned
ReturnFn(c) ==
  /\ calls[c].pc = "loop"
  /\ calls[c].i > Len(calls[c].batch)
  /\ calls' = [calls EXCEPT ![c].pc = "done"]
  /\ UNCHANGED <<text_cfg, max_length, max_length_2, loadVars, layerVars>>

\* the host calls the closure of one encoder only when no other call of it runs
CallFnSerialized ==
  \E c \in CallIds, idx \in {1, 2}, batch \in Batches :
    NoOtherRunning(c, idx) /\ CallFn(c, idx, batch)

\* the host calls the closure from several threads at will
CallFnConcurrent ==
  \E c \in CallIds, idx \in {1, 2}, batch \in Batches : CallFn(c, idx, batch)

(***************************************************************************)
(* prepare_inputs                                                          *)
(***************************************************************************)
\* batch elements
MaxBatch == 2

\* the common denominator of the sampled fractions: t is tn / TDen
TDen == 4

\* line 365 (and line 328 for the guidance)
TimestepScale == 1000

\* the values of a latent or of a noise sample at one tensor position
LatentValues ==
  {-1, 2}

NoiseValues ==
  {0, 1}

\* (channels, num_frames, h, w) of the latents
LatentShapes ==
  {<<1, 1, 1, 1>>, <<1, 1, 1, 2>>}

\* the text tokens of a prompt embedding
TextTokenCounts ==
  {3}

\* one tensor handed between the stages: what it is (role), its shape, and
\* its values as numerators over the denominator den, flattened batch first;
\* data is empty where the values play no part.  hist lists the transformer
\* blocks the tensor has been through.
Field(role, shape, data, den) ==
  [role |-> role, shape |-> shape, data |-> data, den |-> den, hist |-> <<>>]

\* the number of positions of one batch element
NumPositions(shape) ==
  shape[2] * shape[3] * shape[4] * shape[5]

\* the batch element a flat index belongs to
BatchOf(k, shape) ==
  ((k - 1) \div NumPositions(shape)) + 1

\* the batches: latents of every shape and value, and the text embeddings of
\* L tokens; the attention mask holds, per batch element, its valid tokens
Inputs ==
  UNION {
    {[latents |-> Field("latent", <<bs>> \o sh, x, 1),
      prompt_embeds_1 |-> Field("text_states", <<bs, L>>, <<>>, 1),
      prompt_attention_mask_1 |-> Field("text_mask", <<bs, L>>, [b \in 1..bs |-> L], 1),
      prompt_embeds_2 |-> Field("text_states_2", <<bs>>, <<>>, 1)]
       : x \in [1..(bs * sh[1] * sh[2] * sh[3] * sh[4]) -> LatentValues]}
    : bs \in 1..MaxBatch, sh \in LatentShapes, L \in TextTokenCounts}

\* model_config as prepare_inputs reads it: `guidance` (a sequence, empty
\* when the key is absent) and `timestep_sample_method` (possibly absent)
PrepareConfigs ==
  [guidance : {<<>>, <<6>>}, timestep_sample_method : {"absent", "logit_normal", "uniform", "cosine"}]

\* timestep_quantile: None, or a fraction qn / TDen strictly between 0 and 1
Quantiles ==
  {None} \cup (1..(TDen - 1))

\* line 330
timestep_sample_method_of(cfg) ==
  IF cfg.timestep_sample_method = "absent" THEN "logit_normal" ELSE cfg.timestep_sample_method

\* lines 339-347: the fractions t (numerators over TDen, one per batch
\* element) the sampling may return.  A quantile gives every batch element
\* the same t: the quantile itself for `uniform`; for `logit_normal` the
\* sigmoid of the scaled normal quantile, which is 1/2 at the quantile 1/2 and
\* otherwise some fraction.  Without a quantile each element draws its own.
TimestepDraws(method, timestep_quantile, bs) ==
  IF timestep_quantile # None THEN
    IF method = "uniform" THEN {[b \in 1..bs |-> timestep_quantile]}
    ELSE IF 2 * timestep_quantile = TDen THEN {[b \in 1..bs |-> timestep_quantile]}
    ELSE {[b \in 1..bs |-> tn] : tn \in 1..(TDen - 1)}
  ELSE [1..bs -> 1..(TDen - 1)]

\* line 350: torch.randn_like(x_1)
NoiseDraws(x_1) ==
  [1..Len(x_1.data) -> NoiseValues]

\* a faulty variant of line 353: the velocity points from noise to data
flow_target_reversed(x_0, x_1) ==
  [k \in 1..Len(x_1) |-> x_1[k] - x_0[k]]

\* line 353: target = x_0 - x_1
flow_target(x_0, x_1) ==
  [k \in 1..Len(x_1) |-> x_0[k] - x_1[k]]

\* lines 351-352: x_t = (1 - t_expanded) * x_1 + t_expanded * x_0, as
\* numerators over TDen; t.view(-1, 1, 1, 1, 1) gives every position of batch
\* element b the fraction t[b]
noisy_latent(t, x_0, x_1, shape) ==
  [k \in 1..Len(x_1) |->
     (TDen - t[BatchOf(k, shape)]) * x_1[k] + t[BatchOf(k, shape)] * x_0[k]]

\* lines 317-377.  t and x_0 are what lines 339-347 and line 350 drew.
prepare_inputs(inp, cfg, t, x_0) ==
  LET latents == inp.latents
      bs == latents.shape[1]
      guidance == IF cfg.guidance = <<>> THEN 1 ELSE cfg.guidance[1]
      guidance_expand == Field("guidance", <<bs>>, [b \in 1..bs |-> guidance * TimestepScale], 1)
      x_1 == latents.data
      x_t == Field("latent", latents.shape, noisy_latent(t, x_0, x_1, latents.shape), TDen)
      target == Field("target", latents.shape, flow_target(x_0, x_1), 1)
      video_length == (latents.shape[3] - 1) * 4 + 1
      video_height == latents.shape[4] * 8
      video_width == latents.shape[5] * 8
      freqs_cos == Field("freqs_cos", <<bs>>, <<video_length, video_height, video_width>>, 1)
      freqs_sin == Field("freqs_sin", <<bs>>, <<video_length, video_height, video_width>>, 1)
      timestep == Field("timestep", <<bs>>, [b \in 1..bs |-> t[b] * TimestepScale], TDen)
  IN IF timestep_sample_method_of(cfg) \notin {"logit_normal", "uniform"}
     THEN [kind |-> "error", error |-> "NotImplementedError", fields |-> <<>>]
     ELSE [kind |-> "tuple", error |-> "none",
           fields |-> <<x_t, timestep, inp.prompt_embeds_1, inp.prompt_attention_mask_1,
                        inp.prompt_embeds_2, freqs_cos, freqs_sin, guidance_expand, target>>]

NoValue ==
  [kind |-> "none", error |-> "none", fields |-> <<>>]

NoDraw ==
  [called |-> FALSE, timestep_quantile |-> None, t |-> <<>>, x_0 |-> <<>>]

\* a batch is at hand, prepare_inputs has not been called
InitPrepare ==
  /\ inputs \in Inputs
  /\ model_config \in PrepareConfigs
  /\ rng = NoDraw
  /\ cur = NoValue
  /\ transformer = 0 /\ layers = <<>> /\ plan = <<>> /\ pos = 0 /\ fed = <<>>

\* the host calls prepare_inputs(inputs, timestep_quantile)
PrepareInputs ==
  /\ cur.kind = "none"
  /\ \E q \in Quantiles :
       \E t \in TimestepDraws(timestep_sample_method_of(model_config), q, inputs.latents.shape[1]) :
         \E x_0 \in NoiseDraws(inputs.latents) :
           /\ rng' = [called |-> TRUE, timestep_quantile |-> q, t |-> t, x_0 |-> x_0]
           /\ cur' = prepare_inputs(inputs, model_config, t, x_0)
  /\ UNCHANGED <<inputs, model_config, transformer, layers, plan, pos, fed>>
  /\ UNCHANGED <<args, fs, heap, inference_model, diffusers_transformer, last_load, n_loads, encVars>>

(***************************************************************************)
(* to_layers and the layer stages                                          *)
(***************************************************************************)
\* double-stream blocks, and single-stream blocks, of a transformer
MaxBlocks == 2

NoBlock ==
  [kind |-> "none", index |-> 0]

\* transformer.double_blocks and transformer.single_blocks, in their order
Transformers ==
  {[double_blocks |-> [i \in 1..n |-> [kind |-> "MMDoubleStreamBlock", index |-> i - 1]],
    single_blocks |-> [i \in 1..m |-> [kind |-> "MMSingleStreamBlock", index |-> i - 1]],
    guidance_embed |-> g,
    text_projection |-> "single_refiner",
    patch_size |-> <<1, 1, 1>>]
     : n \in 0..MaxBlocks, m \in 0..MaxBlocks, g \in BOOLEAN}

Stage(type, block) ==
  [type |-> type, block |-> block]

\* a faulty variant of lines 379-388: the single-stream blocks are
\* listed before the concatenation step
to_layers_concat_last(tr) ==
  <<Stage("InitialLayer", NoBlock)>>
    \o [i \in 1..Len(tr.double_blocks) |-> Stage("DoubleBlock", tr.double_blocks[i])]
    \o [i \in 1..Len(tr.single_blocks) |-> Stage("SingleBlock", tr.single_blocks[i])]
    \o <<Stage("concatenate_hidden_states", NoBlock)>>
    \o <<Stage("OutputLayer", NoBlock)>>

\* lines 379-388
to_layers(tr) ==
  <<Stage("InitialLayer", NoBlock)>>
    \o [i \in 1..Len(tr.double_blocks) |-> Stage("DoubleBlock", tr.double_blocks[i])]
    \o <<Stage("concatenate_hidden_states", NoBlock)>>
    \o [i \in 1..Len(tr.single_blocks) |-> Stage("SingleBlock", tr.single_blocks[i])]
    \o <<Stage("OutputLayer", NoBlock)>>

Raise(error) ==
  [kind |-> "error", error |-> error, fields |-> <<>>]

Tuple(fields) ==
  [kind |-> "tuple", error |-> "none", fields |-> fields]

\* the tensors a stage works on, by the names it unpacks them to
InitialLayerInputs ==
  <<"latent", "timestep", "text_states", "text_mask", "text_states_2",
    "freqs_cos", "freqs_sin", "guidance", "target">>

DoubleBlockInputs ==
  <<"img", "txt", "vec", "cu_seqlens", "max_seqlen", "freqs_cos", "freqs_sin",
    "txt_seq_len", "img_seq_len", "unpatchify_args", "target">>

SingleBlockInputs ==
  <<"x", "vec", "cu_seqlens", "max_seqlen", "freqs_cos", "freqs_sin",
    "txt_seq_len", "img_seq_len", "unpatchify_args", "target">>

\* `a, b, ... = inputs` and the use of each name: the error raised, or "none".
\* A scalar cannot be unpacked, a tuple of another length does not unpack to
\* the names, and a tensor bound to a name that stands for another tensor
\* makes the stage's modules fail.  None (role "None") binds to any name.
unpack_error(value, names) ==
  IF value.kind # "tuple" THEN "TypeError: not a tuple"
  ELSE IF Len(value.fields) # Len(names) THEN "ValueError: unpack"
  ELSE IF \E i \in 1..Len(names) : value.fields[i].role \notin {names[i], "None"}
       THEN "RuntimeError: tensor mismatch"
  ELSE "none"

\* hyvideo's get_cu_seqlens(text_mask, img_len): for each batch element the
\* end of its valid tokens and the end of its padded row
get_cu_seqlens(text_mask, img_len) ==
  LET bs == text_mask.shape[1]
      max_len == text_mask.shape[2] + img_len
  IN <<0>> \o [j \in 1..(2 * bs) |->
                 IF j % 2 = 1
                 THEN ((j - 1) \div 2) * max_len + text_mask.data[((j - 1) \div 2) + 1] + img_len
                 ELSE (j \div 2) * max_len]

\* InitialLayer.forward, lines 406-466: torch.is_floating_point is applied to
\* every item of the tuple (lines 407-409) before the tuple is unpacked
InitialLayer_forward(tr, value) ==
  IF value.kind = "tuple" /\ \E i \in 1..Len(value.fields) : value.fields[i].role = "None"
  THEN Raise("TypeError: is_floating_point")
  ELSE IF unpack_error(value, InitialLayerInputs) # "none"
  THEN Raise(unpack_error(value, InitialLayerInputs))
  ELSE
    LET x == value.fields[1]
        text_states == value.fields[3]
        text_mask == value.fields[4]
        freqs_cos == value.fields[6]
        freqs_sin == value.fields[7]
        target == value.fields[9]
        bs == x.shape[1]
        tt == x.shape[3] \div tr.patch_size[1]
        th == x.shape[4] \div tr.patch_size[2]
        tw == x.shape[5] \div tr.patch_size[3]
        unpatchify_args == Field("unpatchify_args", <<3>>, <<tt, th, tw>>, 1)
        vec == Field("vec", <<bs>>, <<>>, 1)
        img_len == tt * th * tw
        txt_len == text_states.shape[2]
        img == Field("img", <<bs, img_len>>, [k \in 1..img_len |-> 1], 1)
        txt == Field("txt", <<bs, txt_len>>, [k \in 1..txt_len |-> 2], 1)
        cu_seqlens == Field("cu_seqlens", <<2 * bs + 1>>, get_cu_seqlens(text_mask, img_len), 1)
        txt_seq_len == Field("txt_seq_len", <<>>, <<txt_len>>, 1)
        img_seq_len == Field("img_seq_len", <<>>, <<img_len>>, 1)
        max_seqlen == Field("max_seqlen", <<>>, <<img_len + txt_len>>, 1)
    IN IF tr.guidance_embed /\ value.fields[8].role = "None"
       THEN Raise("ValueError: Didn't get guidance strength for guidance distilled model.")
       ELSE IF tr.text_projection \notin {"linear", "single_refiner"}
       THEN Raise("NotImplementedError")
       ELSE Tuple(<<img, txt, vec, cu_seqlens, max_seqlen,
                    [freqs_cos EXCEPT !.shape = <<>>], [freqs_sin EXCEPT !.shape = <<>>],
                    txt_seq_len, img_seq_len, unpatchify_args, target>>)

\* a faulty variant of DoubleBlock.forward: the target is not passed on
DoubleBlock_forward_drops_target(block, value) ==
  IF unpack_error(value, DoubleBlockInputs) # "none"
  THEN Raise(unpack_error(value, DoubleBlockInputs))
  ELSE Tuple(SubSeq([value.fields EXCEPT ![1].hist = Append(@, block),
                                         ![2].hist = Append(@, block)], 1, 10))

\* DoubleBlock.forward, lines 475-478
DoubleBlock_forward(block, value) ==
  IF unpack_error(value, DoubleBlockInputs) # "none"
  THEN Raise(unpack_error(value, DoubleBlockInputs))
  ELSE Tuple([value.fields EXCEPT ![1].hist = Append(@, block),
                                  ![2].hist = Append(@, block)])

\* a faulty variant of concatenate_hidden_states: the text tokens stay
\* in the tuple beside the combined sequence
concatenate_hidden_states_keeps_txt(value) ==
  IF unpack_error(value, DoubleBlockInputs) # "none"
  THEN Raise(unpack_error(value, DoubleBlockInputs))
  ELSE LET img == value.fields[1]
           txt == value.fields[2]
           x == [role |-> "x", shape |-> <<img.shape[1], img.shape[2] + txt.shape[2]>>,
                 data |-> img.data \o txt.data, den |-> 1, hist |-> img.hist \o txt.hist]
       IN Tuple(<<x>> \o SubSeq(value.fields, 2, 11))

\* a faulty variant of line 483: torch.cat((txt, img), 1), the text tokens
\* placed first
concatenate_hidden_states_txt_first(value) ==
  IF unpack_error(value, DoubleBlockInputs) # "none"
  THEN Raise(unpack_error(value, DoubleBlockInputs))
  ELSE LET img == value.fields[1]
           txt == value.fields[2]
           x == [role |-> "x", shape |-> <<img.shape[1], img.shape[2] + txt.shape[2]>>,
                 data |-> txt.data \o img.data, den |-> 1, hist |-> img.hist \o txt.hist]
       IN Tuple(<<x>> \o SubSeq(value.fields, 3, 11))

\* concatenate_hidden_states, lines 481-484: torch.cat((img, txt), 1)
concatenate_hidden_states(value) ==
  IF unpack_error(value, DoubleBlockInputs) # "none"
  THEN Raise(unpack_error(value, DoubleBlockInputs))
  ELSE LET img == value.fields[1]
           txt == value.fields[2]
           x == [role |-> "x", shape |-> <<img.shape[1], img.shape[2] + txt.shape[2]>>,
                 data |-> img.data \o txt.data, den |-> 1, hist |-> img.hist \o txt.hist]
       IN Tuple(<<x>> \o SubSeq(value.fields, 3, 11))

\* SingleBlock.forward, lines 493-496
SingleBlock_forward(block, value) ==
  IF unpack_error(value, SingleBlockInputs) # "none"
  THEN Raise(unpack_error(value, SingleBlockInputs))
  ELSE Tuple([value.fields EXCEPT ![1].hist = Append(@, block)])

\* OutputLayer.forward, lines 507-521: the image tokens are sliced off the
\* front of x, projected, unpatchified and compared with the target
OutputLayer_forward(tr, value) ==
  IF unpack_error(value, SingleBlockInputs) # "none"
  THEN Raise(unpack_error(value, SingleBlockInputs))
  ELSE LET x == value.fields[1]
           img_seq_len == value.fields[8].data[1]
           img == SubSeq(x.data, 1, img_seq_len)
       IN [kind |-> "loss", error |-> "none",
           fields |-> <<[role |-> "loss", shape |-> <<>>, data |-> img, den |-> 1,
                         hist |-> x.hist]>>]

\* the forward of one stage of the list
forward(tr, stage, value) ==
  CASE stage.type = "InitialLayer" -> InitialLayer_forward(tr, value)
    [] stage.type = "DoubleBlock" -> DoubleBlock_forward(stage.block, value)
    [] stage.type = "concatenate_hidden_states" -> concatenate_hidden_states(value)
    [] stage.type = "SingleBlock" -> SingleBlock_forward(stage.block, value)
    [] OTHER -> OutputLayer_forward(tr, value)

(***************************************************************************)
(* The host running the stages                                             *)
(***************************************************************************)
\* the stages in listed order
ListedOrder(n) ==
  [i \in 1..n |-> i]

\* the listed order without stage k
Omitting(n, k) ==
  [i \in 1..(n - 1) |-> IF i < k THEN i ELSE i + 1]

\* the listed order with the stages at i and j swapped
Swapping(n, i, j) ==
  [k \in 1..n |-> IF k = i THEN j ELSE IF k = j THEN i ELSE k]

Plans(n) ==
  {ListedOrder(n)}
    \cup {Omitting(n, k) : k \in 1..n}
    \cup {Swapping(n, i, j) : i \in 1..n, j \in 1..n}

\* the batches the stages are run on: the latents all hold the same value
StageInputs ==
  {inp \in Inputs : \A k \in 1..Len(inp.latents.data) : inp.latents.data[k] = 2}

\* the draws of the prepare_inputs call that made the stages' input
StageDraw(inp) ==
  [called |-> TRUE, timestep_quantile |-> None,
   t |-> [b \in 1..inp.latents.shape[1] |-> 1],
   x_0 |-> [k \in 1..Len(inp.latents.data) |-> 1]]

\* the transformer is installed and prepare_inputs has returned the tuple of
\* one batch; to_layers has not been called
InitLayers ==
  /\ transformer \in Transformers
  /\ inputs \in StageInputs
  /\ model_config \in {c \in PrepareConfigs : c.timestep_sample_method = "absent"}
  /\ rng = StageDraw(inputs)
  /\ cur = prepare_inputs(inputs, model_config, rng.t, rng.x_0)
  /\ layers = <<>> /\ plan = <<>> /\ pos = 0 /\ fed = <<>>

\* None where a tensor of the tuple is expected
NoneField ==
  [role |-> "None", shape |-> <<>>, data |-> <<>>, den |-> 1, hist |-> <<>>]

\* the tuples a caller hands InitialLayer.forward: the one prepare_inputs
\* returned, and that one with None as its guidance (the case line 436 tests)
CallerTuples(value) ==
  {value, [value EXCEPT !.fields[8] = NoneField]}

\* the transformer is installed and the caller holds a tuple for the first
\* stage; to_layers has not been called
InitCallerTuple ==
  /\ transformer \in Transformers
  /\ inputs \in StageInputs
  /\ model_config \in {c \in PrepareConfigs : c.timestep_sample_method = "absent"}
  /\ rng = StageDraw(inputs)
  /\ cur \in CallerTuples(prepare_inputs(inputs, model_config, rng.t, rng.x_0))
  /\ layers = <<>> /\ plan = <<>> /\ pos = 0 /\ fed = <<>>

\* to_layers() (lines 379-388)
ToLayers ==
  /\ layers = <<>>
  /\ layers' = to_layers(transformer)
  /\ UNCHANGED <<inputs, rng, model_config, transformer, plan, pos, cur, fed>>
  /\ UNCHANGED <<args, fs, heap, inference_model, diffusers_transformer, last_load, n_loads, encVars>>

\* the host fixes the order in which it will run the stages: the listed one,
\* or the listed one with a stage left out or two stages swapped
Schedule ==
  /\ layers # <<>>
  /\ plan = <<>>
  /\ plan' \in Plans(Len(layers))
  /\ UNCHANGED <<inputs, rng, model_config, transformer, layers, pos, cur, fed>>
  /\ UNCHANGED <<args, fs, heap, inference_model, diffusers_transformer, last_load, n_loads, encVars>>

\* the host runs the next stage of its plan on the value the last one
\* returned; an error raised by a stage ends the step
RunStage ==
  /\ plan # <<>>
  /\ pos < Len(plan)
  /\ cur.kind # "error"
  /\ LET stage == layers[plan[pos + 1]]
         out == forward(transformer, stage, cur)
     IN /\ cur' = out
        /\ fed' = Append(fed, [type |-> stage.type,
                               arity |-> Len(cur.fields),
                               accepted |-> out.kind # "error"])
  /\ pos' = pos + 1
  /\ UNCHANGED <<inputs, rng, model_config, transformer, layers, plan>>
  /\ UNCHANGED <<args, fs, heap, inference_model, diffusers_transformer, last_load, n_loads, encVars>>

IdleLoad ==
  /\ args = 0 /\ fs = 0 /\ heap = <<>> /\ inference_model = None
  /\ diffusers_transformer = None /\ last_load = 0 /\ n_loads = 0

IdleEnc ==
  /\ text_cfg = 0 /\ max_length = 0 /\ max_length_2 = 0 /\ calls = <<>>

IdleLayers ==
  /\ inputs = 0 /\ rng = 0 /\ transformer = 0 /\ layers = <<>> /\ plan = <<>> /\ pos = 0 /\ cur = 0 /\ fed = <<>>

InitSpecLoad ==
  InitLoad /\ IdleEnc /\ IdleLayers

SpecLoad ==
  InitSpecLoad /\ [][LoadDiffusionModel]_vars

NextSerial ==
  \/ CallFnSerialized
  \/ \E c \in CallIds : SetMaxLength(c)
  \/ \E c \in CallIds : EncodePrompt(c)
  \/ \E c \in CallIds : ReturnFn(c)

InitSpecEnc ==
  InitEnc /\ IdleLoad /\ IdleLayers /\ model_config = 0

SpecSerial ==
  InitSpecEnc /\ [][NextSerial]_vars

NextConcurrent ==
  \/ CallFnConcurrent
  \/ \E c \in CallIds : SetMaxLength(c)
  \/ \E c \in CallIds : EncodePrompt(c)
  \/ \E c \in CallIds : ReturnFn(c)

SpecConcurrent ==
  InitSpecEnc /\ [][NextConcurrent]_vars

InitSpecPrepare ==
  InitPrepare /\ IdleLoad /\ IdleEnc

SpecPrepare ==
  InitSpecPrepare /\ [][PrepareInputs]_vars

InitSpecLayers ==
  InitLayers /\ IdleLoad /\ IdleEnc

NextLayers ==
  \/ ToLayers
  \/ Schedule
  \/ RunStage

SpecLayers ==
  InitSpecLayers /\ [][NextLayers]_vars

InitSpecCallerTuple ==
  InitCallerTuple /\ IdleLoad /\ IdleEnc

SpecCallerTuple ==
  InitSpecCallerTuple /\ [][NextLayers]_vars

(***************************************************************************)
(* Claims about the text-encode closure                                    *)
(***************************************************************************)
\* the truncation length the sample's modality calls for
LengthFor(is_video) ==
  IF is_video THEN text_cfg.text_len + text_cfg.crop_start_video
  ELSE text_cfg.text_len + text_cfg.crop_start_image

\* C1 (under SpecSerial: the calls of one encoder's closure are serialized):
\* every sample encoded by a closure bound to the first encoder was encoded
\* with max_length equal to text_len + the video template's crop_start when it
\* is a video and text_len + the image template's crop_start when it is an
\* image, whatever the order and mix of the batch.
C1_PerSampleLength ==
  \A c \in CallIds :
    calls[c].idx = 1 =>
      \A k \in 1..Len(calls[c].out) :
        /\ calls[c].out[k].is_video = calls[c].batch[k]
        /\ calls[c].out[k].max_length = LengthFor(calls[c].batch[k])

\* C1, witness: one call on the first encoder has returned a batch of a video
\* and an image sample, encoded with two different lengths
C1_MixedBatchEncoded ==
  \E c \in CallIds :
    /\ calls[c].pc = "done" /\ calls[c].idx = 1
    /\ calls[c].batch = <<TRUE, FALSE>>
    /\ calls[c].out[1].max_length # calls[c].out[2].max_length

\* C2 (under SpecConcurrent): nothing synchronizes two invocations on the same
\* encoder: whenever one has set max_length and not yet encoded, the other's
\* `set max_length` step for its next sample is enabled.
C2_NoSynchronization ==
  \A a \in CallIds : \A b \in CallIds \ {a} :
    (/\ calls[a].pc = "encode" /\ calls[b].pc = "loop"
     /\ calls[a].idx = calls[b].idx
     /\ calls[b].i <= Len(calls[b].batch))
      => ENABLED SetMaxLength(b)

\* C2, witness: with two invocations on the first encoder, a video sample has
\* been encoded with the image length, which differs from the video length
C2_EncodedWithOtherModality ==
  /\ LengthFor(TRUE) # LengthFor(FALSE)
  /\ \E c \in CallIds : \E k \in 1..Len(calls[c].out) :
       /\ calls[c].idx = 1
       /\ calls[c].out[k].is_video
       /\ calls[c].out[k].max_length = LengthFor(FALSE)

(***************************************************************************)
(* Claims about to_layers and the stages, checked under SpecLayers         *)
(***************************************************************************)
NumDouble ==
  Len(transformer.double_blocks)

NumSingle ==
  Len(transformer.single_blocks)

\* the stages that wrap block b
StagesWrapping(b) ==
  {k \in 1..Len(layers) : layers[k].block = b}

\* C3: for a transformer with n double-stream and m single-stream blocks,
\* to_layers() returns n + m + 3 stages: an InitialLayer, then DoubleBlocks
\* wrapping double_blocks[0..n-1] in order, then the concatenation step, then
\* SingleBlocks wrapping single_blocks[0..m-1] in order, then an OutputLayer;
\* every block is wrapped by exactly one stage.
C3_StageList ==
  layers # <<>> =>
    /\ Len(layers) = NumDouble + NumSingle + 3
    /\ layers[1].type = "InitialLayer"
    /\ \A i \in 1..NumDouble :
         /\ layers[1 + i].type = "DoubleBlock"
         /\ layers[1 + i].block = transformer.double_blocks[i]
         /\ layers[1 + i].block.index = i - 1
         /\ Cardinality(StagesWrapping(transformer.double_blocks[i])) = 1
    /\ layers[NumDouble + 2].type = "concatenate_hidden_states"
    /\ \A j \in 1..NumSingle :
         /\ layers[NumDouble + 2 + j].type = "SingleBlock"
         /\ layers[NumDouble + 2 + j].block = transformer.single_blocks[j]
         /\ layers[NumDouble + 2 + j].block.index = j - 1
         /\ Cardinality(StagesWrapping(transformer.single_blocks[j])) = 1
    /\ layers[NumDouble + NumSingle + 3].type = "OutputLayer"

\* C3, witness: to_layers() has returned for a transformer with two
\* double-stream blocks and a single-stream block
C3_ListOfSeveralBlocks ==
  /\ layers # <<>>
  /\ NumDouble >= 2 /\ NumSingle >= 1

\* the fields a stage of the given type unpacks, in order
FieldsUnpackedBy(type) ==
  CASE type = "InitialLayer" ->
         <<"latent", "timestep", "text_states", "text_mask", "text_states_2",
           "freqs_cos", "freqs_sin", "guidance", "target">>
    [] type \in {"DoubleBlock", "concatenate_hidden_states"} ->
         <<"img", "txt", "vec", "cu_seqlens", "max_seqlen", "freqs_cos", "freqs_sin",
           "txt_seq_len", "img_seq_len", "unpatchify_args", "target">>
    [] OTHER ->
         <<"x", "vec", "cu_seqlens", "max_seqlen", "freqs_cos", "freqs_sin",
           "txt_seq_len", "img_seq_len", "unpatchify_args", "target">>

FieldsOf(value) ==
  [i \in 1..Len(value.fields) |-> value.fields[i].role]

\* no stage run so far raised on the value it was handed
NoStageRejected ==
  \A k \in 1..Len(fed) : fed[k].accepted

\* the run of the plan is over: every stage ran, or one raised
Finished ==
  plan # <<>> /\ (pos = Len(plan) \/ cur.kind = "error")

\* C4: running the stages of to_layers() in listed order on the tuple
\* prepare_inputs returned, no stage raises; the tuple of prepare_inputs has
\* the 9 fields InitialLayer unpacks, in its order; every stage is handed
\* exactly the fields it unpacks, in its order (11 fields into the DoubleBlocks
\* and the concatenation step, 10 into the SingleBlocks and the OutputLayer);
\* and the last stage returns one scalar loss.
C4_ListedOrderWellFormed ==
  /\ (layers = <<>> /\ cur.kind = "tuple") => FieldsOf(cur) = FieldsUnpackedBy("InitialLayer")
  /\ (plan # <<>> /\ plan = ListedOrder(Len(layers))) =>
       /\ cur.kind # "error"
       /\ NoStageRejected
       /\ \A k \in 1..Len(fed) :
            /\ fed[k].type = layers[k].type
            /\ fed[k].arity = Len(FieldsUnpackedBy(layers[k].type))
            /\ fed[k].arity = (IF k = 1 THEN 9 ELSE IF k <= NumDouble + 2 THEN 11 ELSE 10)
       /\ pos < Len(plan) =>
            /\ cur.kind = "tuple"
            /\ FieldsOf(cur) = FieldsUnpackedBy(layers[pos + 1].type)
       /\ pos = Len(plan) =>
            /\ cur.kind = "loss"
            /\ Len(cur.fields) = 1 /\ cur.fields[1].shape = <<>>

\* C4, witness: the stages of a transformer with blocks of both kinds have
\* all run in listed order and the last one returned the loss
C4_ListedRunReturnedLoss ==
  /\ plan # <<>> /\ plan = ListedOrder(Len(layers))
  /\ NumDouble >= 1 /\ NumSingle >= 1
  /\ pos = Len(plan)
  /\ cur.kind = "loss"

\* the plan is the listed order without stage k
PlanOmits(k) ==
  plan = Omitting(Len(layers), k)

\* the plan is the listed order with the stages i < j swapped
PlanSwaps(i, j) ==
  i < j /\ plan = Swapping(Len(layers), i, j)

\* C5 as stated: no stage is safely reorderable or skippable: every execution
\* that omits one stage or swaps two stages hands some stage a tuple that is
\* not of the shape the stage requires.  (An execution that ends without the
\* loss, as one that omits the OutputLayer does, is counted as not safe too.)
C5_EveryChangeRejected ==
  (Finished /\ plan # ListedOrder(Len(layers))) => (~NoStageRejected \/ cur.kind # "loss")

\* C5 as amended: an execution that omits the InitialLayer or the
\* concatenation step, or swaps two stages of different types, hands some
\* stage a tuple it cannot unpack; one that omits the OutputLayer hands every
\* stage the tuple it requires and ends with a tuple instead of a loss; one
\* that omits a DoubleBlock or a SingleBlock, or swaps two DoubleBlocks or two
\* SingleBlocks, hands every stage the tuple it requires and ends with the loss.
C5_ShapeChangingStagesOnly ==
  plan # <<>> =>
    /\ \A k \in 1..Len(layers) :
         (PlanOmits(k) /\ layers[k].type \in {"InitialLayer", "concatenate_hidden_states"})
           => (Finished => ~NoStageRejected)
    /\ \A i, j \in 1..Len(layers) :
         (PlanSwaps(i, j) /\ layers[i].type # layers[j].type)
           => (Finished => ~NoStageRejected)
    /\ \A k \in 1..Len(layers) :
         (PlanOmits(k) /\ layers[k].type = "OutputLayer")
           => (NoStageRejected /\ cur.kind = "tuple")
    /\ \A k \in 1..Len(layers) :
         (PlanOmits(k) /\ layers[k].type \in {"DoubleBlock", "SingleBlock"})
           => (NoStageRejected /\ (Finished => cur.kind = "loss"))
    /\ \A i, j \in 1..Len(layers) :
         (PlanSwaps(i, j) /\ layers[i].type = layers[j].type)
           => (NoStageRejected /\ (Finished => cur.kind = "loss"))

\* C5, witness: a run that swapped two stages of different types has ended
\* with a stage raising on the tuple it was handed
C5_SwappedRunRejected ==
  /\ Finished
  /\ \E i, j \in 1..Len(layers) : PlanSwaps(i, j) /\ layers[i].type # layers[j].type
  /\ ~NoStageRejected

\* the tuple InitialLayer returned for the tuple prepare_inputs built
EmittedByInitialLayer ==
  InitialLayer_forward(transformer, prepare_inputs(inputs, model_config, rng.t, rng.x_0))

\* the fields no DoubleBlock, concatenation step or SingleBlock owns
PassedThrough ==
  {"vec", "cu_seqlens", "max_seqlen", "freqs_cos", "freqs_sin",
   "txt_seq_len", "img_seq_len", "unpatchify_args", "target"}

\* the positions of the tuple that hold the field of the given name
PositionsOf(value, role) ==
  {i \in 1..Len(value.fields) : value.fields[i].role = role}

\* the field of the given name
FieldNamed(value, role) ==
  value.fields[CHOOSE i \in PositionsOf(value, role) : TRUE]

\* the field as InitialLayer emitted it, whatever blocks have worked on it
WithoutBlocks(field) ==
  [field EXCEPT !.hist = <<>>]

\* the blocks of the stages that have run, in the order they ran
BlocksRun(type) ==
  LET ran == [k \in 1..pos |-> layers[plan[k]]]
  IN SelectSeq(ran, LAMBDA stage : stage.type = type)

\* C11: after InitialLayer, as long as no stage raises, the modulation
\* vector, cu_seqlens, max_seqlen (image count + text count), rotary cos/sin,
\* text and image token counts, unpatchify shape and target of the tuple are
\* the ones InitialLayer emitted; the DoubleBlocks work on img and txt only
\* (same tokens, each block applied once to both), the concatenation step
\* replaces img and txt by img followed by txt, the SingleBlocks work on x
\* only; and the prefix of length img_seq_len that OutputLayer slices off x is
\* the image tokens.
C11_PassThrough ==
  (pos >= 1 /\ fed[1].type = "InitialLayer" /\ NoStageRejected) =>
    LET e == EmittedByInitialLayer
        img == e.fields[1]
        txt == e.fields[2]
        doubles == [k \in 1..Len(BlocksRun("DoubleBlock")) |-> BlocksRun("DoubleBlock")[k].block]
        singles == [k \in 1..Len(BlocksRun("SingleBlock")) |-> BlocksRun("SingleBlock")[k].block]
    IN /\ e.kind = "tuple"
       /\ FieldNamed(e, "max_seqlen").data[1] = Len(img.data) + Len(txt.data)
       /\ FieldNamed(e, "img_seq_len").data[1] = Len(img.data)
       /\ FieldNamed(e, "txt_seq_len").data[1] = Len(txt.data)
       /\ cur.kind = "tuple" =>
            /\ \A role \in PassedThrough :
                 /\ Cardinality(PositionsOf(cur, role)) = 1
                 /\ FieldNamed(cur, role) = FieldNamed(e, role)
            /\ Len(cur.fields) = 11 =>
                 /\ WithoutBlocks(cur.fields[1]) = img
                 /\ WithoutBlocks(cur.fields[2]) = txt
                 /\ cur.fields[1].hist = doubles
                 /\ cur.fields[2].hist = doubles
                 /\ singles = <<>>
            /\ Len(cur.fields) = 10 =>
                 /\ cur.fields[1].role = "x"
                 /\ cur.fields[1].data = img.data \o txt.data
                 /\ cur.fields[1].shape = <<img.shape[1], img.shape[2] + txt.shape[2]>>
                 /\ cur.fields[1].hist = doubles \o doubles \o singles
       /\ cur.kind = "loss" =>
            /\ cur.fields[1].data = img.data
            /\ cur.fields[1].hist = doubles \o doubles \o singles

\* C11, witness: a listed run through blocks of both kinds, over more than
\* one image token, has returned the loss
C11_BlocksRanBeforeLoss ==
  /\ plan # <<>> /\ plan = ListedOrder(Len(layers))
  /\ NumDouble >= 1 /\ NumSingle >= 2
  /\ pos = Len(plan)
  /\ cur.kind = "loss"
  /\ Len(cur.fields[1].data) >= 2
  /\ Len(cur.fields[1].hist) = 2 * NumDouble + NumSingle

(***************************************************************************)
(* Claim about InitialLayer and an absent guidance, under SpecCallerTuple  *)
(***************************************************************************)
\* the step is a run of InitialLayer on a 9-field tuple whose guidance is
\* None, for a transformer with guidance_embed set
InitialLayerRunsWithoutGuidance ==
  /\ plan # <<>> /\ pos < Len(plan) /\ pos' = pos + 1
  /\ layers[plan[pos + 1]].type = "InitialLayer"
  /\ transformer.guidance_embed
  /\ cur.kind = "tuple" /\ Len(cur.fields) = 9
  /\ cur.fields[8].role = "None"
  /\ \A i \in (1..9) \ {8} : cur.fields[i].role # "None"

\* C12 as stated: when InitialLayer is run on a tuple whose guidance is None
\* and the model has guidance_embed set, the stage raises ValueError("Didn't
\* get guidance strength for guidance distilled model.") and returns no
\* tuple; no earlier step of the stage raises on the absent guidance.
C12_AbsentGuidanceRaisesValueError ==
  [][InitialLayerRunsWithoutGuidance =>
       /\ cur'.kind = "error"
       /\ cur'.fields = <<>>
       /\ cur'.error = "ValueError: Didn't get guidance strength for guidance distilled model."]_vars

(***************************************************************************)
(* Claims about the loader and the lifecycle, checked under SpecLoad       *)
(***************************************************************************)
\* the transformer object the latest load_state_dict call worked on
LoadedObject ==
  heap[last_load.object]

\* C6: the transformer follows a two-phase lifecycle.  Before any call of
\* load_diffusion_model no transformer is installed; the inference
\* pipeline's model and the inner pipeline's transformer are always the same
\* object; an installed transformer has every registered parameter populated
\* exactly once, on the CPU, and tagged with original_name equal to its
\* parameter name; and no parameter of any transformer is populated twice.
C6_TwoPhaseLifecycle ==
  /\ (n_loads = 0 => inference_model = None /\ diffusers_transformer = None)
  /\ inference_model = diffusers_transformer
  /\ \A i \in 1..Len(heap) : \A n \in ParamNameSet : heap[i].params[n].populated <= 1
  /\ inference_model # None =>
       /\ inference_model \in 1..Len(heap)
       /\ heap[inference_model].training
       /\ \A n \in ParamNameSet :
            LET p == heap[inference_model].params[n]
            IN p.populated = 1 /\ p.device = "cpu" /\ p.original_name = n

\* C6, witness: a transformer has been installed by load_diffusion_model
C6_Installed ==
  /\ n_loads > 0
  /\ inference_model # None
  /\ diffusers_transformer = inference_model

\* the *.pt entries of the directory are exactly pytorch_model_<load_key>.pt
OnlyShardOfLoadKey ==
  /\ fs.kind = "dir"
  /\ SelectSeq(fs.listing, LAMBDA f : EndsWith(f, S_pt))
       = <<S_pytorch_model_ \o args.load_key \o S_pt>>

\* C7: when the configured weight location is a directory whose one *.pt
\* file is pytorch_model_<key>.pt and load_key is <key>, load_state_dict
\* resolves the checkpoint path to that file and treats the checkpoint as
\* unwrapped (load_key is not looked up in it), for every directory path.
C7_ShardDirectoryResolved ==
  (last_load.called /\ OnlyShardOfLoadKey) =>
     /\ last_load.model_path = PathJoin(args.dit_weight, S_pytorch_model_ \o args.load_key \o S_pt)
     /\ last_load.bare_model = "True"
     /\ ~last_load.looked_up

\* the top level of the file's mapping holds `ema` or `module`
FileLooksWrapped ==
  S_ema \in DOMAIN fs.content \/ S_module \in DOMAIN fs.content

\* C8: when the configured weight location is a single file: if the loaded
\* mapping holds `ema` or `module`, the checkpoint is wrapped, and either
\* load_key is present and the parameters are read from the mapping stored
\* under it, or load_key is absent and the call fails with a KeyError that
\* lists the mapping's keys, before any parameter is materialized; if the
\* mapping holds neither, it is used as it is and load_key is never looked up.
C8_SingleFileWrapping ==
  (last_load.called /\ fs.kind = "file") =>
     /\ (FileLooksWrapped /\ args.load_key \in DOMAIN fs.content) =>
          /\ last_load.bare_model = "False"
          /\ DOMAIN last_load.state_dict = fs.content[args.load_key].inner
          /\ \A n \in DOMAIN last_load.state_dict : last_load.state_dict[n].tag = args.load_key
     /\ (FileLooksWrapped /\ args.load_key \notin DOMAIN fs.content) =>
          /\ last_load.error = "KeyError: load_key"
          /\ last_load.error_keys = DOMAIN fs.content
          /\ \A n \in ParamNameSet : LoadedObject.params[n].populated = 0
          /\ inference_model = None
     /\ ~FileLooksWrapped =>
          /\ last_load.bare_model = "unknown"
          /\ last_load.state_dict = fs.content
          /\ ~last_load.looked_up

\* C8, witness: a single-file checkpoint that holds `ema` or `module` but not
\* load_key has failed with the KeyError listing its keys
C8_MissingLoadKey ==
  /\ last_load.called /\ fs.kind = "file"
  /\ FileLooksWrapped /\ args.load_key \notin DOMAIN fs.content
  /\ last_load.error = "KeyError: load_key"
  /\ last_load.error_keys = DOMAIN fs.content

\* C9: after a successful load_state_dict with requested dtype d, every
\* named parameter is on the CPU, with dtype bfloat16 if its name contains one
\* of the kept keywords as a substring and with dtype d otherwise; the
\* parameters named ...fc1.bias, ...img_attn_q_norm.weight and
\* img_in.proj.weight are bfloat16 whatever d is, and proj_out.weight has d.
C9_DTypePolicy ==
  (last_load.called /\ last_load.error = "none") =>
     /\ \A n \in ParamNameSet :
          LET p == LoadedObject.params[n]
          IN /\ p.device = "cpu"
             /\ p.dtype = IF \E k \in ParamsToKeep : Contains(n, k)
                          THEN "bfloat16" ELSE last_load.dtype
     /\ LoadedObject.params[P_fc1_bias].dtype = "bfloat16"
     /\ LoadedObject.params[P_q_norm_weight].dtype = "bfloat16"
     /\ LoadedObject.params[P_img_in_proj_weight].dtype = "bfloat16"
     /\ LoadedObject.params[P_proj_out_weight].dtype = last_load.dtype
     /\ LoadedObject.params[P_fc1_weight].dtype = last_load.dtype

\* C9, witness: a load with a requested dtype other than bfloat16 succeeded
C9_LoadedInFloat8 ==
  /\ last_load.called /\ last_load.error = "none"
  /\ last_load.dtype = "float8_e4m3fn"
  /\ LoadedObject.params[P_fc1_bias].dtype = "bfloat16"
  /\ LoadedObject.params[P_proj_out_weight].dtype = "float8_e4m3fn"

(***************************************************************************)
(* Claims about prepare_inputs, checked under SpecPrepare                  *)
(***************************************************************************)
\* C10: the tuple prepare_inputs returns holds, at every batch element b and
\* tensor position k, target = x_0 - x_1 and x_t = (1 - t[b]) x_1 + t[b] x_0
\* with the x_0 and the t[b] that were drawn (so x_t - x_1 = t[b] * target),
\* and the returned timestep of element b is t[b] * 1000.  Fractions are
\* numerators over TDen.
C10_FlowMatchingPair ==
  (rng.called /\ cur.kind = "tuple") =>
     LET x_t == cur.fields[1]
         timestep == cur.fields[2]
         target == cur.fields[9]
         x_1 == inputs.latents.data
         shape == inputs.latents.shape
     IN /\ x_t.den = TDen /\ timestep.den = TDen /\ target.den = 1
        /\ Len(x_t.data) = Len(x_1) /\ Len(target.data) = Len(x_1)
        /\ \A k \in 1..Len(x_1) :
             LET tn == rng.t[BatchOf(k, shape)]
             IN /\ target.data[k] = rng.x_0[k] - x_1[k]
                /\ x_t.data[k] = (TDen - tn) * x_1[k] + tn * rng.x_0[k]
                /\ x_t.data[k] - TDen * x_1[k] = tn * target.data[k]
        /\ Len(timestep.data) = shape[1]
        /\ \A b \in 1..shape[1] : timestep.data[b] = rng.t[b] * 1000

\* C10, witness: prepare_inputs has returned for a batch of two elements that
\* drew different fractions, with a target that is not zero everywhere
C10_TwoElementsPrepared ==
  /\ rng.called /\ cur.kind = "tuple"
  /\ inputs.latents.shape[1] = 2
  /\ rng.t[1] # rng.t[2]
  /\ \E k \in 1..Len(cur.fields[9].data) : cur.fields[9].data[k] # 0
====
